---- MODULE Spec2Model ----
(***************************************************************************)
(* A model of ApplyPlanner (src/apply_planner.py): the planner that turns  *)
(* a current resource collection, a target collection and a changed set    *)
(* into an ordered list of "+name" / "-name" operations.                   *)
(*                                                                         *)
(* Names are the integers 1..NumNames; the integer order stands for the    *)
(* string order that sorted() uses.  A collection (a Python dict of        *)
(* name -> resource) is the sequence of its values in insertion order, so  *)
(* that iteration order is part of the state.  The recursion of            *)
(* _apply_resource / _plan_create / _plan_delete is run on an explicit     *)
(* call stack, one frame per Python call.                                  *)
(***************************************************************************)
EXTENDS Integers, Sequences, FiniteSets

VARIABLES
    state,       \* self._state: the current collection
    target,      \* self._target: the target collection
    changed,     \* self._changed
    applied,     \* self._applied
    plan,        \* the local list `plan` of plan()
    todo,        \* the specifiers plan() has still to resolve
    stack,       \* call stack of the recursion, top frame first
    visited,     \* the local set `visited` of plan()
    pos,         \* index into plan of the next iteration of the yield loop
    out,         \* the operations the generator has yielded so far
    pc,          \* where plan() is: start, resolve, yield, suspended, done, error
    err,         \* the exception that ended plan(), or "none"
    specifiers,  \* the argument of plan(): a list of names, <<>> for None
    first,       \* <<the result of an earlier, finished plan() of this instance>>, or <<>>
    other,       \* <<a second plan() in progress on this instance, not running now>>, or <<>>
    overlapped   \* whether the resolve steps of two plan() calls have interleaved

vars == <<state, target, changed, applied, plan, todo, stack, visited, pos, out, pc, err,
          specifiers, first, other, overlapped>>

\* what no step of the running plan() assigns: the constructor's arguments, the
\* argument of plan(), and the other calls of plan()
untouched == <<state, target, changed, specifiers, first, other, overlapped>>

(***************************************************************************)
(* Bounds of the model.                                                    *)
(***************************************************************************)
NumNames == 3      \* resource names are 1..NumNames
MaxList == 1       \* longest deps list and longest tools list of a resource
MaxRefs == 2       \* dep and tool entries written in the resource definitions of an input
MaxRemovedRefs == 3   \* dep and tool entries of the current collection when all is removed
MaxDepth == 16     \* call depth at which the interpreter gives up the recursion

Names == 1..NumNames

(***************************************************************************)
(* Collections.                                                            *)
(***************************************************************************)
Range(s) == {s[i] : i \in 1..Len(s)}

TR(n, d, t) == [name |-> n, deps |-> d, tools |-> t]

Keys(coll) == {coll[i].name : i \in 1..Len(coll)}

Has(coll, n) == n \in Keys(coll)

Get(coll, n) == coll[CHOOSE i \in 1..Len(coll) : coll[i].name = n]

RECURSIVE Sorted(_)
Sorted(S) ==
    IF S = {} THEN <<>>
    ELSE LET m == CHOOSE x \in S : \A y \in S : x <= y
         IN  <<m>> \o Sorted(S \ {m})

Reverse(s) == [i \in 1..Len(s) |-> s[Len(s) + 1 - i]]

(***************************************************************************)
(* The inputs the model draws from: every collection over Names whose      *)
(* resources list at most MaxList deps and MaxList tools.  The two dicts   *)
(* are filled in one pass over one resource list, as the test harness does *)
(* (_build_apply_planner), in ascending or in descending order of name.    *)
(***************************************************************************)
Lists == UNION {[1..k -> Names] : k \in 0..MaxList}

Defs == [deps : Lists, tools : Lists]

KeyOrders == {Sorted(K) : K \in SUBSET Names}

CollectionsOver(ks) ==
    {[i \in 1..Len(ks) |-> TR(ks[i], c[i].deps, c[i].tools)] : c \in [1..Len(ks) -> Defs]}

RECURSIVE RefCount(_)
RefCount(coll) ==
    IF coll = <<>> THEN 0
    ELSE Len(Head(coll).deps) + Len(Head(coll).tools) + RefCount(Tail(coll))

AllCollections == UNION {CollectionsOver(ks) : ks \in KeyOrders}

\* the dep and tool entries of the two collections together; a target entry that
\* is the current resource itself (the harness puts one TR object in both dicts)
\* is counted once
RefCost(s, t) ==
    RefCount(s) + RefCount(SelectSeq(t, LAMBDA r : r \notin Range(s)))

SmallCollections == {c \in AllCollections : RefCount(c) <= MaxRefs}

Inputs == {<<s, t>> \in SmallCollections \X SmallCollections : RefCost(s, t) <= MaxRefs}

(***************************************************************************)
(* Operations and the two graphs built by the constructor.                 *)
(***************************************************************************)
Op(k, n) == [kind |-> k, name |-> n]

Create(n) == Op("+", n)

Delete(n) == Op("-", n)

\* a deletion that does not look at the dependents
NoPreds(n) == <<>>

\* a deps graph that also holds the tool edges: the users of a tool are deleted with it
DepOrToolPreds(n) ==
    SelectSeq([i \in 1..Len(state) |-> state[i].name],
              LAMBDA m : n \in Range(Get(state, m).deps) \cup Range(Get(state, m).tools))

\* _generate_delete_deps_graph: an edge name -> d for every dep d of a current resource;
\* the predecessors of n, in the order the edges were inserted
DepPreds(n) == SelectSeq([i \in 1..Len(state) |-> state[i].name],
                         LAMBDA m : n \in Range(Get(state, m).deps))

\* _generate_tools_deps_graph: an edge name -> t for every tool t of a current resource
ToolPreds(n) == SelectSeq([i \in 1..Len(state) |-> state[i].name],
                          LAMBDA m : n \in Range(Get(state, m).tools))

\* the nodes of the tools graph: the endpoints of its edges
InToolsGraph(n) ==
    \E i \in 1..Len(state) : state[i].tools # <<>> /\ (state[i].name = n \/ n \in Range(state[i].tools))

\* the edges of the two graphs
DepEdges == UNION {{<<state[i].name, d>> : d \in Range(state[i].deps)} : i \in 1..Len(state)}

ToolEdges == UNION {{<<state[i].name, t>> : t \in Range(state[i].tools)} : i \in 1..Len(state)}

\* a cycle check of the deps graph alone
DepEdgesOnly == DepEdges

\* nx.compose(self._delete_deps_graph, self._tools_deps_graph): the union of the edges
ComposedEdges == DepEdges \cup ToolEdges

RECURSIVE ReachFrom(_, _)
ReachFrom(E, S) ==
    LET S2 == S \cup {e[2] : e \in {x \in E : x[1] \in S}}
    IN  IF S2 = S THEN S ELSE ReachFrom(E, S2)

\* nx.find_cycle: some node reaches itself along at least one edge
FindCycle(E) == \E e \in E : e[1] \in ReachFrom(E, {e[2]})

\* a planner that takes every resource for changed
AlwaysChanged(n) == TRUE

is_changed(n) == n \in changed

\* a plan() that keeps the memo of the call before it
NotCleared(s) == s

\* self._applied.clear()
Clear(s) == {}

RECURSIVE SortSeq(_)
\* sorted() of a list: duplicates stay
SortSeq(s) ==
    IF s = <<>> THEN <<>>
    ELSE LET m == CHOOSE x \in Range(s) : \A y \in Range(s) : x <= y
         IN  SelectSeq(s, LAMBDA x : x = m) \o SortSeq(SelectSeq(s, LAMBDA x : x # m))

\* a plan() that drops the specifiers it has no entry for
RequestedKnown(sp, keys) ==
    IF sp # <<>> THEN SortSeq(SelectSeq(sp, LAMBDA x : x \in keys)) ELSE Sorted(keys)

\* plan(), line 21: sorted(specifiers or self._target.keys() | self._state.keys())
Requested(sp, keys) == IF sp # <<>> THEN SortSeq(sp) ELSE Sorted(keys)

\* a replacement that creates the new instance before it deletes the old one
CreateThenDelete == <<"create", "delete">>

\* _apply_resource, lines 57-58: the two calls that replace a changed resource
ReplaceSteps == <<"delete", "create">>

\* a creation that resolves nothing first
NoLoops(resource) == <<>>

\* a creation that resolves the deps before the tools
DepsFirst(resource) == <<resource.deps, resource.tools>>

\* _plan_create, lines 74-78: the loop over the tools, then the loop over the deps
CreateLoops(resource) == <<resource.tools, resource.deps>>

(***************************************************************************)
(* Call frames.  ph is the loop of the body the frame is in (0: not yet    *)
(* entered), i the index of the next element of that loop.  In a frame of  *)
(* _apply_resource ph is the statement the call is at: 0 the test of the   *)
(* memo (line 48), 3 the add to the memo (line 51), 1 between the two      *)
(* calls of a replacement (lines 57-58), 2 waiting for its last call.      *)
(***************************************************************************)
Frame(fn, n) == [fn |-> fn, name |-> n, ph |-> 0, i |-> 1]

RECURSIVE Seek(_, _, _)
Seek(Ls, p, i) ==
    IF p > Len(Ls) THEN [ph |-> 0, i |-> 0]
    ELSE IF i <= Len(Ls[p]) THEN [ph |-> p, i |-> i]
    ELSE Seek(Ls, p + 1, 1)

Raise(e) ==
    /\ pc' = "error"
    /\ err' = e
    /\ stack' = <<>>
    /\ UNCHANGED <<untouched, applied, plan, todo, visited, pos, out>>

\* a call: the caller's frame is updated, the callee's frame is pushed
Call(caller, callee) ==
    IF Len(stack) >= MaxDepth
    THEN /\ pc' = "error"
         /\ err' = "RecursionError"
         /\ stack' = <<>>
    ELSE /\ stack' = <<callee, caller>> \o Tail(stack)
         /\ UNCHANGED <<pc, err>>

\* the top call returns; an _apply_resource call that was only waiting for it
\* (nothing left to do in its body) returns with it
Return ==
    LET rest == Tail(stack)
    IN  IF rest # <<>> /\ Head(rest).fn = "apply" /\ Head(rest).ph = 2
        THEN Tail(rest)
        ELSE rest

TypeOK ==
    /\ applied \subseteq Names
    /\ pc \in {"start", "resolve", "yield", "suspended", "done", "error"}
    /\ err \in {"none", "ValueError", "AssertionError", "RecursionError"}

Init ==
    /\ \E rev \in BOOLEAN, inp \in Inputs :
          /\ state = IF rev THEN Reverse(inp[1]) ELSE inp[1]
          /\ target = IF rev THEN Reverse(inp[2]) ELSE inp[2]
    \* _is_changed is consulted only for names of the target, and a changed name
    \* has an existing instance
    /\ changed \in SUBSET (Keys(state) \cap Keys(target))
    /\ applied = {}
    /\ plan = <<>>
    /\ todo = <<>>
    /\ stack = <<>>
    /\ visited = {}
    /\ pos = 1
    /\ out = <<>>
    /\ pc = "start"
    /\ err = "none"
    /\ specifiers = <<>>
    /\ first = <<>>
    /\ other = <<>>
    /\ overlapped = FALSE

\* plan(), lines 18-23: the cycle check, then the reset of the memo and the working set
Validate ==
    /\ pc = "start"
    /\ IF FindCycle(ComposedEdges)
       THEN /\ pc' = "error"
            /\ err' = "ValueError"
            /\ UNCHANGED <<applied, todo>>
       ELSE /\ pc' = "resolve"
            /\ applied' = Clear(applied)
            /\ todo' = Requested(specifiers, Keys(target) \cup Keys(state))
            /\ UNCHANGED err
    /\ plan' = <<>>
    /\ UNCHANGED <<untouched, stack, visited, pos, out>>

\* plan(), lines 25-26: the call for the next specifier
NextSpecifier ==
    /\ pc = "resolve"
    /\ stack = <<>>
    /\ todo # <<>>
    /\ stack' = <<Frame("apply", Head(todo))>>
    /\ todo' = Tail(todo)
    /\ UNCHANGED <<untouched, applied, plan, visited, pos, out, pc, err>>

\* _apply_resource
ApplyResource ==
    /\ pc = "resolve"
    /\ stack # <<>>
    /\ Head(stack).fn = "apply"
    /\ LET f == Head(stack)
           n == f.name
       IN  IF f.ph = 0
           \* lines 48-49: the test of the memo; the add of line 51 is another
           \* statement, and another call of plan() may run between the two
           THEN /\ stack' = IF n \in applied
                            THEN Tail(stack)
                            ELSE <<[f EXCEPT !.ph = 3]>> \o Tail(stack)
                /\ UNCHANGED <<applied, pc, err>>
           ELSE IF f.ph = 3
           \* line 51, then the branch of lines 53-61
           THEN /\ applied' = applied \cup {n}
                /\ IF ~Has(target, n)
                   THEN Call([f EXCEPT !.ph = 2], Frame("delete", n))
                   ELSE IF is_changed(n)
                   THEN Call([f EXCEPT !.ph = 1], Frame(ReplaceSteps[1], n))
                   ELSE IF ~Has(state, n)
                   THEN Call([f EXCEPT !.ph = 2], Frame("create", n))
                   ELSE /\ stack' = Tail(stack)
                        /\ UNCHANGED <<pc, err>>
           ELSE /\ f.ph = 1
                /\ Call([f EXCEPT !.ph = 2], Frame(ReplaceSteps[2], n))
                /\ UNCHANGED applied
    /\ UNCHANGED <<untouched, plan, todo, visited, pos, out>>

\* _plan_create
PlanCreate ==
    /\ pc = "resolve"
    /\ stack # <<>>
    /\ Head(stack).fn = "create"
    /\ LET f == Head(stack)
           n == f.name
       IN  IF f.ph = 0 /\ ~(Has(target, n) \/ Has(state, n))
           THEN Raise("AssertionError")
           ELSE LET resource == IF Has(target, n) THEN Get(target, n) ELSE Get(state, n)
                    at == IF f.ph = 0
                          THEN Seek(CreateLoops(resource), 1, 1)
                          ELSE Seek(CreateLoops(resource), f.ph, f.i)
                IN  IF at.ph = 0
                    THEN /\ plan' = Append(plan, Create(n))
                         /\ stack' = Return
                         /\ UNCHANGED <<untouched, applied, todo, visited, pos, out, pc, err>>
                    ELSE /\ Call([f EXCEPT !.ph = at.ph, !.i = at.i + 1],
                                 Frame("apply", CreateLoops(resource)[at.ph][at.i]))
                         /\ UNCHANGED <<untouched, applied, plan, todo, visited, pos, out>>

\* _plan_delete
PlanDelete ==
    /\ pc = "resolve"
    /\ stack # <<>>
    /\ Head(stack).fn = "delete"
    /\ LET f == Head(stack)
           n == f.name
       IN  IF f.ph = 0 /\ ~Has(state, n)
           THEN Raise("AssertionError")
           ELSE LET loops == << IF InToolsGraph(n) THEN ToolPreds(n) ELSE <<>>,
                                DepPreds(n),
                                Get(state, n).tools >>
                    at == IF f.ph = 0 THEN Seek(loops, 1, 1) ELSE Seek(loops, f.ph, f.i)
                    caller == [f EXCEPT !.ph = at.ph, !.i = at.i + 1]
                IN  IF at.ph = 0
                    THEN /\ plan' = Append(plan, Delete(n))
                         /\ stack' = Return
                         /\ UNCHANGED <<untouched, applied, todo, visited, pos, out, pc, err>>
                    ELSE /\ Call(caller, Frame(IF at.ph = 2 THEN "delete" ELSE "apply", loops[at.ph][at.i]))
                         /\ applied' = IF at.ph = 3 THEN applied \ {n} ELSE applied
                         /\ UNCHANGED <<untouched, plan, todo, visited, pos, out>>

RECURSIVE BackfillCurrent(_, _)
\* a backfill pass over the names of the current collection
BackfillCurrent(p, i) ==
    IF i > Len(state) THEN p
    ELSE LET n == state[i].name
         IN  IF Delete(n) \in Range(p) /\ ~(Create(n) \in Range(p))
             THEN BackfillCurrent(Append(p, Create(n)), i + 1)
             ELSE BackfillCurrent(p, i + 1)

\* a plan() without the backfill pass
BackfillSkipped(p, i) == p

RECURSIVE BackfillFrom(_, _)
\* plan(), lines 28-30, from the i-th entry of the target on
BackfillFrom(p, i) ==
    IF i > Len(target) THEN p
    ELSE LET n == target[i].name
         IN  IF Delete(n) \in Range(p) /\ ~(Create(n) \in Range(p))
             THEN BackfillFrom(Append(p, Create(n)), i + 1)
             ELSE BackfillFrom(p, i + 1)

\* plan(), lines 28-30, once the loop over the specifiers has ended
Backfill ==
    /\ pc = "resolve"
    /\ stack = <<>>
    /\ todo = <<>>
    /\ plan' = BackfillFrom(plan, 1)
    /\ pc' = IF plan' = <<>> THEN "done" ELSE "yield"
    /\ UNCHANGED <<untouched, applied, todo, stack, visited, pos, out, err>>

\* a plan() that yields every element of the list
IsNewAlways(e, seen) == TRUE

\* a dedup keyed by the name alone
IsNewName(e, seen) == \A v \in seen : v.name # e.name

\* plan(), line 34: whether the element e of plan is yielded
IsNew(e, seen) == e \notin seen

\* plan(), lines 33-36: one iteration of the loop over plan, up to the point
\* where it yields.  An element seen before is added to visited and the loop
\* goes on; a new one is yielded, and the generator is suspended at line 35,
\* before line 36 has run
Yield ==
    /\ pc = "yield"
    /\ IF IsNew(plan[pos], visited)
       THEN /\ out' = Append(out, plan[pos])
            /\ pc' = "suspended"
            /\ UNCHANGED <<visited, pos>>
       ELSE /\ visited' = visited \cup {plan[pos]}
            /\ pos' = pos + 1
            /\ pc' = IF pos = Len(plan) THEN "done" ELSE "yield"
            /\ UNCHANGED out
    /\ UNCHANGED <<untouched, applied, plan, todo, stack, err>>

\* plan(), line 36: the consumer asks for the next element, the generator
\* resumes after the yield; it is exhausted after the last element
AfterYield ==
    /\ pc = "suspended"
    /\ visited' = visited \cup {plan[pos]}
    /\ pos' = pos + 1
    /\ pc' = IF pos = Len(plan) THEN "done" ELSE "yield"
    /\ UNCHANGED <<untouched, applied, plan, todo, stack, out, err>>

Next ==
    Validate \/ NextSpecifier \/ ApplyResource \/ PlanCreate \/ PlanDelete \/ Backfill \/ Yield
        \/ AfterYield

Spec == Init /\ [][Next]_vars

(***************************************************************************)
(* The removal of everything: an empty target, and a current collection    *)
(* with up to MaxRemovedRefs dep and tool entries.  Nothing is created.    *)
(***************************************************************************)
InitRemoveAll ==
    /\ \E rev \in BOOLEAN, s \in {c \in AllCollections : RefCount(c) <= MaxRemovedRefs} :
          state = IF rev THEN Reverse(s) ELSE s
    /\ target = <<>>
    /\ changed = {}
    /\ applied = {}
    /\ plan = <<>>
    /\ todo = <<>>
    /\ stack = <<>>
    /\ visited = {}
    /\ pos = 1
    /\ out = <<>>
    /\ pc = "start"
    /\ err = "none"
    /\ specifiers = <<>>
    /\ first = <<>>
    /\ other = <<>>
    /\ overlapped = FALSE

NextRemoveAll ==
    Validate \/ NextSpecifier \/ ApplyResource \/ PlanDelete \/ Backfill \/ Yield \/ AfterYield

SpecRemoveAll == InitRemoveAll /\ [][NextRemoveAll]_vars

(***************************************************************************)
(* Reading the yielded sequence: replaying it from the current collection. *)
(***************************************************************************)
Done == pc = "done"

Emitted(op) == op \in Range(out)

\* position of op in out (out holds no operation twice), 0 if it is absent
IndexOf(op) == IF Emitted(op) THEN CHOOSE k \in 1..Len(out) : out[k] = op ELSE 0

Before(op1, op2) == Emitted(op1) /\ Emitted(op2) /\ IndexOf(op1) < IndexOf(op2)

RECURSIVE PresentAfter(_)
\* the names that exist once the first k operations of out are executed
PresentAfter(k) ==
    IF k = 0 THEN Keys(state)
    ELSE IF out[k].kind = "+" THEN PresentAfter(k - 1) \cup {out[k].name}
    ELSE PresentAfter(k - 1) \ {out[k].name}

\* the deps of the instance of y that exists once the first k operations are
\* executed: the target definition if y was created by then, else the current one
DepsOfInstance(y, k) ==
    IF \E j \in 1..k : out[j] = Create(y)
    THEN Range(Get(target, y).deps)
    ELSE Range(Get(state, y).deps)

\* every name a collection mentions has an entry in it
Closed(coll) ==
    \A i \in 1..Len(coll) : Range(coll[i].deps) \cup Range(coll[i].tools) \subseteq Keys(coll)

EdgesOf(coll) ==
    UNION {{<<coll[i].name, d>> : d \in Range(coll[i].deps) \cup Range(coll[i].tools)} :
           i \in 1..Len(coll)}

\* a directed cycle, stated as a closed walk: p[1] -> p[2] -> ... -> p[Len(p)] -> p[1]
HasClosedWalk(E) ==
    \E k \in 1..NumNames : \E p \in [1..k -> Names] :
        /\ \A i \in 1..(k - 1) : <<p[i], p[i + 1]>> \in E
        /\ <<p[k], p[1]>> \in E

WellFormed == Closed(state) /\ Closed(target) /\ ~HasClosedWalk(EdgesOf(target))

(***************************************************************************)
(* C1: replaying the plan, no Delete(X) is executed while a resource that  *)
(* exists at that moment lists X in its deps.  Stated here for well-formed *)
(* inputs only (both collections closed, the target acyclic); the planner  *)
(* violates it even there.                                                 *)
(***************************************************************************)
C1_DeleteHasNoDependent ==
    (Done /\ WellFormed) =>
        \A k \in 1..Len(out) :
            out[k].kind = "-" =>
                \A y \in PresentAfter(k - 1) \ {out[k].name} :
                    out[k].name \notin DepsOfInstance(y, k - 1)

(***************************************************************************)
(* C2: replaying the plan, every Create(X) is executed when all deps of    *)
(* the target definition of X exist.  Stated for well-formed inputs only;  *)
(* the planner violates it even there.                                     *)
(***************************************************************************)
C2_CreateHasItsDeps ==
    (Done /\ WellFormed) =>
        \A k \in 1..Len(out) :
            out[k].kind = "+" =>
                Range(Get(target, out[k].name).deps) \subseteq PresentAfter(k - 1)

(***************************************************************************)
(* C3: a target name that is deleted in the output is created in the       *)
(* output, at a later position.                                            *)
(***************************************************************************)
C3_DeletedTargetIsRecreated ==
    Done =>
        \A n \in Keys(target) :
            Emitted(Delete(n)) => Before(Delete(n), Create(n))

\* a target resource that is not changed was deleted (forced by the deletion of
\* its dependency) and is created again
C3_Witness ==
    /\ Done
    /\ \E n \in Keys(target) \ changed : Before(Delete(n), Create(n))

(***************************************************************************)
(* C4: a full plan over an acyclic current collection, replayed on the     *)
(* current names, ends with exactly the target names.                      *)
(***************************************************************************)
C4_ReplayReachesTarget ==
    Done => PresentAfter(Len(out)) = Keys(target)

\* a plan that deletes one name for good, creates a new one and replaces a third
C4_Witness ==
    /\ Done
    /\ \E a, b, c \in Names :
          /\ a \in Keys(state) \ Keys(target) /\ Emitted(Delete(a))
          /\ b \in Keys(target) \ Keys(state) /\ Emitted(Create(b))
          /\ c \in Keys(state) \cap Keys(target) /\ Before(Delete(c), Create(c))

(***************************************************************************)
(* C5: the scenario "changed tool": toolA (name 1) and userB (name 2,      *)
(* tools = [toolA]) in both collections, changed = {toolA}.  The claim     *)
(* gives the plan as -userB, -toolA, +toolA, +userB.                       *)
(***************************************************************************)
ToolScenario ==
    /\ Range(state) = {TR(1, <<>>, <<>>), TR(2, <<>>, <<1>>)}
    /\ Range(target) = Range(state)
    /\ changed = {1}

C5_UserReplacedWithTool ==
    (Done /\ ToolScenario) => out = <<Delete(2), Delete(1), Create(1), Create(2)>>

\* C5 as amended: the plan is exactly -toolA, +toolA; the user of the tool is
\* resolved when the tool is deleted, and being unchanged it is left alone
C5_ToolReplacedAlone ==
    (Done /\ ToolScenario) => out = <<Delete(1), Create(1)>>

C5_Witness == Done /\ ToolScenario /\ Len(state) = 2 /\ Len(target) = 2

(***************************************************************************)
(* C6: plan() fails with the cycle error, having emitted nothing, exactly  *)
(* when the dep and tool edges of the current collection together contain  *)
(* a directed cycle.                                                       *)
(***************************************************************************)
C6_CycleRejectedFirst ==
    pc # "start" =>
        /\ (err = "ValueError") <=> HasClosedWalk(EdgesOf(state))
        /\ err = "ValueError" => (plan = <<>> /\ out = <<>> /\ pc = "error")

\* a cycle that mixes a dep edge and a tool edge is rejected
C6_Witness ==
    /\ err = "ValueError"
    /\ \E a, b \in Names :
          /\ a # b
          /\ <<a, b>> \in DepEdges \ ToolEdges
          /\ <<b, a>> \in ToolEdges \ DepEdges

(***************************************************************************)
(* C7: when every name the collections mention has an entry in one of      *)
(* them, the recursion of plan() terminates (it never exhausts the call    *)
(* stack).                                                                 *)
(***************************************************************************)
AllNamesKnown ==
    \A e \in EdgesOf(state) \cup EdgesOf(target) : e[2] \in Keys(state) \cup Keys(target)

C7_RecursionTerminates == AllNamesKnown => err # "RecursionError"

(***************************************************************************)
(* C8: if B of the current collection lists A in its deps and Delete(A) is *)
(* in the output, Delete(B) is in the output before it.                    *)
(***************************************************************************)
C8_DependentDeletedFirst ==
    Done =>
        \A i \in 1..Len(state) : \A a \in Range(state[i].deps) :
            Emitted(Delete(a)) => Before(Delete(state[i].name), Delete(a))

\* the dependent is neither changed nor removed from the target: only the
\* deletion of its dependency forces its own
C8_Witness ==
    /\ Done
    /\ \E i \in 1..Len(state) : \E a \in Range(state[i].deps) :
          /\ state[i].name \in Keys(target) \ changed
          /\ Before(Delete(state[i].name), Delete(a))

(***************************************************************************)
(* C9: if R lists the tool T in its target definition and both are newly   *)
(* created, Create(T) precedes Create(R) (T other than R).                 *)
(***************************************************************************)
C9_ToolCreatedFirst ==
    Done =>
        \A i \in 1..Len(target) : \A t \in Range(target[i].tools) \ {target[i].name} :
            (target[i].name \notin Keys(state) /\ t \in Keys(target) \ Keys(state))
                => Before(Create(t), Create(target[i].name))

(***************************************************************************)
(* C10: when every current resource is removed (empty target), each        *)
(* resource is deleted before every resource it lists in its deps or in    *)
(* its tools.                                                              *)
(***************************************************************************)
C10_UsersDeletedFirst ==
    (Done /\ target = <<>> /\ Closed(state)) =>
        \A i \in 1..Len(state) : \A d \in Range(state[i].deps) \cup Range(state[i].tools) :
            Before(Delete(state[i].name), Delete(d))

(***************************************************************************)
(* C11: when the current collection is empty and the target is acyclic,    *)
(* the full plan holds exactly one Create for every target name and no     *)
(* Delete, and every resource is created after all its tools and deps.     *)
(* (A target that lists a name without an entry makes plan() fail; the     *)
(* property is about the plans that are produced.)                         *)
(***************************************************************************)
C11_AllCreatedInOrder ==
    (Done /\ state = <<>> /\ ~HasClosedWalk(EdgesOf(target))) =>
        /\ Range(out) = {Create(n) : n \in Keys(target)}
        /\ Len(out) = Len(target)
        /\ \A i \in 1..Len(target) :
              \A d \in Range(target[i].deps) \cup Range(target[i].tools) :
                  Before(Create(d), Create(target[i].name))

\* a new resource that sorts before its tool and before its dep: only the
\* recursion of the creation puts them first
C11_Witness ==
    /\ Done /\ state = <<>> /\ ~HasClosedWalk(EdgesOf(target))
    /\ \E i \in 1..Len(target) : \E t \in Range(target[i].tools) : \E d \in Range(target[i].deps) :
          /\ t # d
          /\ target[i].name < t /\ target[i].name < d
          /\ Before(Create(t), Create(target[i].name))
          /\ Before(Create(d), Create(target[i].name))

(***************************************************************************)
(* plan(specifiers): the caller names the resources to resolve.  A         *)
(* specifier may be any name, with or without an entry in the collections, *)
(* and may be given twice; <<>> is the call without specifiers.            *)
(***************************************************************************)
MaxSpecifiers == 2   \* longest list of specifiers
MaxSpecRefs == 1     \* dep and tool entries of an input planned with specifiers

SpecifierLists == UNION {[1..k -> Names] : k \in 0..MaxSpecifiers}

\* a planner just constructed, no plan() called on it yet
Constructed ==
    /\ applied = {}
    /\ plan = <<>>
    /\ todo = <<>>
    /\ stack = <<>>
    /\ visited = {}
    /\ pos = 1
    /\ out = <<>>
    /\ pc = "start"
    /\ err = "none"
    /\ first = <<>>
    /\ other = <<>>
    /\ overlapped = FALSE

InitSpecifiers ==
    /\ \E rev \in BOOLEAN, inp \in {x \in Inputs : RefCost(x[1], x[2]) <= MaxSpecRefs} :
          /\ state = IF rev THEN Reverse(inp[1]) ELSE inp[1]
          /\ target = IF rev THEN Reverse(inp[2]) ELSE inp[2]
    /\ changed \in SUBSET (Keys(state) \cap Keys(target))
    /\ specifiers \in SpecifierLists
    /\ Constructed

SpecSpecifiers == InitSpecifiers /\ [][Next]_vars

(***************************************************************************)
(* C12: a changed name of both collections whose operations are in the     *)
(* output has its Delete strictly before its Create, whatever the          *)
(* specifiers.                                                             *)
(***************************************************************************)
C12_ReplacedDeleteFirst ==
    Done =>
        \A n \in changed \cap Keys(state) \cap Keys(target) :
            (Emitted(Delete(n)) \/ Emitted(Create(n))) => Before(Delete(n), Create(n))

\* a changed resource with a tool is replaced by a plan with specifiers: its
\* deletion takes it out of the memo
C12_Witness ==
    /\ Done
    /\ specifiers # <<>>
    /\ \E n \in changed : Get(state, n).tools # <<>> /\ Before(Delete(n), Create(n))

(***************************************************************************)
(* C13: the yielded sequence never holds the same operation twice, and it  *)
(* is the sequence of the first occurrences of the accumulated list, in    *)
(* their order in that list.                                               *)
(***************************************************************************)
RECURSIVE FirstOccurrences(_)
FirstOccurrences(p) ==
    IF p = <<>> THEN <<>>
    ELSE LET front == SubSeq(p, 1, Len(p) - 1)
             last == p[Len(p)]
         IN  IF last \in Range(front)
             THEN FirstOccurrences(front)
             ELSE Append(FirstOccurrences(front), last)

C13_YieldsFirstOccurrences ==
    /\ \A i, j \in 1..Len(out) : i # j => out[i] # out[j]
    /\ Done => out = FirstOccurrences(plan)

\* the accumulated list holds an operation twice, between other operations
C13_Witness ==
    /\ Done
    /\ \E i, j \in 1..Len(plan) : i + 1 < j /\ plan[i] = plan[j]
    /\ Len(out) < Len(plan)

(***************************************************************************)
(* A second plan() on the same planner, called once the first one is       *)
(* exhausted or has failed.  The instance keeps self._applied as the first *)
(* call left it; the locals of plan() are new.                             *)
(***************************************************************************)
Result == [out |-> out, err |-> err]

PlanAgain ==
    /\ pc \in {"done", "error"}
    /\ first = <<>>
    /\ other = <<>>
    /\ first' = <<Result>>
    /\ plan' = <<>>
    /\ todo' = <<>>
    /\ stack' = <<>>
    /\ visited' = {}
    /\ pos' = 1
    /\ out' = <<>>
    /\ pc' = "start"
    /\ err' = "none"
    /\ UNCHANGED <<state, target, changed, specifiers, applied, other, overlapped>>

NextTwice ==
    Validate \/ NextSpecifier \/ ApplyResource \/ PlanCreate \/ PlanDelete \/ Backfill \/ Yield
        \/ AfterYield \/ PlanAgain

SpecTwice == InitSpecifiers /\ [][NextTwice]_vars

(***************************************************************************)
(* C14: two successive plan() calls on one planner, with the same          *)
(* specifiers, end the same way: the same operations yielded, or the same  *)
(* failure.                                                                *)
(***************************************************************************)
C14_SecondPlanIsTheSame ==
    (first # <<>> /\ pc \in {"done", "error"}) => Result = first[1]

\* the first call has left the memo without a name it resolved (the delete
\* branch took it out), and the second call yields the same operations
C14_Witness ==
    /\ first # <<>>
    /\ Done
    /\ out # <<>>
    /\ Result = first[1]
    /\ \E n \in Names : Emitted(Delete(n)) /\ n \notin applied

(***************************************************************************)
(* C15: if a resource of the current or of the target collection lists a   *)
(* dep or a tool that has no entry in either collection, plan() fails and  *)
(* emits no operation.                                                     *)
(***************************************************************************)
C15_UnknownReferenceAborts ==
    ~AllNamesKnown => (out = <<>> /\ pc \notin {"yield", "suspended", "done"})

(***************************************************************************)
(* C16: if a specifier has no entry in the current nor in the target       *)
(* collection, plan() fails and emits no operation: it never reaches the   *)
(* end of the loop over the specifiers, the operations planned for the     *)
(* specifiers before the unknown one are not yielded.                      *)
(***************************************************************************)
UnknownSpecifier == \E x \in Range(specifiers) : x \notin Keys(state) \cup Keys(target)

C16_UnknownSpecifierAborts ==
    UnknownSpecifier =>
        /\ out = <<>>
        /\ pc \in {"start", "resolve", "error"}
        /\ ~(pc = "resolve" /\ stack = <<>> /\ todo = <<>>)

\* the failure comes after operations were planned for a specifier that sorts
\* before the unknown one
C16_Witness ==
    /\ UnknownSpecifier
    /\ pc = "error"
    /\ err = "AssertionError"
    /\ plan # <<>>
    /\ out = <<>>

(***************************************************************************)
(* C17: if a newly created resource R lists the tool T and the dep D, both *)
(* newly created and T other than D, Create(T) comes before Create(D).     *)
(***************************************************************************)
C17_ToolBeforeDep ==
    Done =>
        \A i \in 1..Len(target) : \A t \in Range(target[i].tools) : \A d \in Range(target[i].deps) :
            (/\ Cardinality({target[i].name, t, d}) = 3
             /\ {target[i].name, t, d} \subseteq Keys(target) \ Keys(state))
                => Before(Create(t), Create(d))

\* r is the only resource of the target that lists d
OnlyListedBy(d, r) ==
    \A j \in 1..Len(target) :
        d \in Range(target[j].deps) \cup Range(target[j].tools) => target[j].name = r

\* C17 as amended: in a full plan from an empty current collection to an
\* acyclic target, Create(T) comes before Create(D) when it is the creation of R
\* that resolves D first: R is the only resource that lists D, D is not one of
\* the tools of R, and R sorts before D
C17_ToolBeforeOwnDep ==
    (Done /\ state = <<>> /\ specifiers = <<>> /\ ~HasClosedWalk(EdgesOf(target))) =>
        \A i \in 1..Len(target) :
            \A t \in Range(target[i].tools) : \A d \in Range(target[i].deps) \ Range(target[i].tools) :
                (t # d /\ target[i].name < d /\ OnlyListedBy(d, target[i].name))
                    => Before(Create(t), Create(d))

\* the dep sorts before the tool, and the tool is created first all the same
C17_Witness ==
    /\ Done /\ state = <<>> /\ specifiers = <<>> /\ ~HasClosedWalk(EdgesOf(target))
    /\ \E i \in 1..Len(target) : \E t \in Range(target[i].tools) : \E d \in Range(target[i].deps) :
          /\ target[i].name < d /\ d < t
          /\ OnlyListedBy(d, target[i].name)
          /\ Before(Create(t), Create(d))

(***************************************************************************)
(* Two overlapping plan() calls on one planner (two threads).  Each call   *)
(* has its own locals; self._applied is the instance's.  One call runs at  *)
(* a time, the other waits in `other`; Switch hands the processor over.    *)
(* A call made alone before them gives the result to compare with.         *)
(***************************************************************************)
MaxOverlapRefs == 1    \* dep and tool entries of an input planned by overlapping calls
MaxOverlapNames == 2   \* names with an entry in an input planned by overlapping calls

\* the locals of the running call
Running ==
    [plan |-> plan, todo |-> todo, stack |-> stack, visited |-> visited,
     pos |-> pos, out |-> out, pc |-> pc, err |-> err]

\* the locals of a call that has not run yet
NotStarted ==
    [plan |-> <<>>, todo |-> <<>>, stack |-> <<>>, visited |-> {},
     pos |-> 1, out |-> <<>>, pc |-> "start", err |-> "none"]

Resume(c) ==
    /\ plan' = c.plan
    /\ todo' = c.todo
    /\ stack' = c.stack
    /\ visited' = c.visited
    /\ pos' = c.pos
    /\ out' = c.out
    /\ pc' = c.pc
    /\ err' = c.err

\* the loop over the specifiers is entered and not left yet
MidResolve(c) == c.pc = "resolve" /\ (c.stack # <<>> \/ c.todo # <<>>)

\* the call has steps to take that read or write self._applied
ResolveLeft(c) == c.pc = "start" \/ MidResolve(c)

InitOverlap ==
    /\ \E inp \in {x \in Inputs : /\ RefCost(x[1], x[2]) <= MaxOverlapRefs
                                  /\ Cardinality(Keys(x[1]) \cup Keys(x[2])) <= MaxOverlapNames} :
          /\ state = inp[1]
          /\ target = inp[2]
    /\ changed \in SUBSET (Keys(state) \cap Keys(target))
    /\ specifiers = <<>>
    /\ Constructed

\* the call made alone has ended; two threads call plan()
CallTwice ==
    /\ pc \in {"done", "error"}
    /\ first = <<>>
    /\ other = <<>>
    /\ first' = <<Result>>
    /\ other' = <<NotStarted>>
    /\ Resume(NotStarted)
    /\ UNCHANGED <<state, target, changed, specifiers, applied, overlapped>>

\* the running call is suspended and the other one resumed
Switch ==
    /\ other # <<>>
    /\ other[1].pc \notin {"done", "error"}
    /\ other' = <<Running>>
    /\ Resume(other[1])
    /\ overlapped' = (overlapped \/ (MidResolve(Running) /\ ResolveLeft(other[1])))
    /\ UNCHANGED <<state, target, changed, specifiers, applied, first>>

NextOverlap ==
    Validate \/ NextSpecifier \/ ApplyResource \/ PlanCreate \/ PlanDelete \/ Backfill \/ Yield
        \/ AfterYield \/ CallTwice \/ Switch

SpecOverlap == InitOverlap /\ [][NextOverlap]_vars

(***************************************************************************)
(* C18: a planner is not safe for overlapping plan() calls.  When the      *)
(* resolve steps of two calls interleave, a call can end with a result     *)
(* other than the one it has alone (the witness); calls whose resolve      *)
(* steps do not interleave end as the call made alone does.                *)
(***************************************************************************)
BothEnded == other # <<>> /\ pc \in {"done", "error"} /\ other[1].pc \in {"done", "error"}

Deviates ==
    \/ Result # first[1]
    \/ [out |-> other[1].out, err |-> other[1].err] # first[1]

C18_DeviationNeedsOverlap == (BothEnded /\ Deviates) => overlapped

\* both calls have ended without a failure, and one of them has yielded other
\* operations than the call made alone
C18_Witness ==
    /\ BothEnded
    /\ overlapped
    /\ first[1].err = "none" /\ err = "none" /\ other[1].err = "none"
    /\ Deviates

(***************************************************************************)
(* C19: no operation is emitted for a name of both collections that is not *)
(* changed and none of whose transitive dependencies (along the deps of    *)
(* the current collection) is deleted in the plan; with the same names in  *)
(* both collections and nothing changed, the plan is empty.                *)
(***************************************************************************)
\* the names n reaches along the deps of the current collection
DepsClosure(n) == ReachFrom(DepEdges, {n}) \ (IF <<n, n>> \in DepEdges THEN {} ELSE {n})

Untouched(n) == ~Emitted(Create(n)) /\ ~Emitted(Delete(n))

C19_UnchangedLeftAlone ==
    Done =>
        /\ \A n \in (Keys(state) \cap Keys(target)) \ changed :
              (\A d \in DepsClosure(n) : ~Emitted(Delete(d))) => Untouched(n)
        /\ (Keys(state) = Keys(target) /\ changed = {}) => out = <<>>

\* an unchanged resource is left alone while its tool is replaced and another
\* resource is deleted
C19_Witness ==
    /\ Done
    /\ \E n \in (Keys(state) \cap Keys(target)) \ changed :
          /\ Untouched(n)
          /\ \E t \in Range(Get(state, n).tools) : Before(Delete(t), Create(t))
          /\ \E m \in Names \ {n} : Emitted(Delete(m)) /\ ~Emitted(Create(m))

(***************************************************************************)
(* C20: Create(name) is emitted only for names of the target collection,   *)
(* Delete(name) only for names of the current collection; the creation     *)
(* never falls back to the current definition of a name.                   *)
(***************************************************************************)
C20_OnlyKnownOperations ==
    /\ \A k \in 1..Len(out) :
          /\ out[k].kind = "+" => out[k].name \in Keys(target)
          /\ out[k].kind = "-" => out[k].name \in Keys(state)
    \* _plan_create is never called for a name without a target definition
    /\ \A k \in 1..Len(stack) : stack[k].fn = "create" => stack[k].name \in Keys(target)

\* a resource is deleted for good through the deletion of its dependency, while
\* that dependency, a name of the target, is created again
C20_Witness ==
    /\ Done
    /\ \E n \in Keys(state) \ Keys(target) : \E d \in Range(Get(state, n).deps) :
          /\ Emitted(Delete(n)) /\ ~Emitted(Create(n))
          /\ Before(Delete(n), Delete(d))
          /\ Before(Delete(d), Create(d))

====
